---- MODULE Spec2Model ----
(***************************************************************************)
(* The SimpleDao contract of src/lib.rs as a state machine.                *)
(*                                                                         *)
(* The storage struct (members, member_tokens, total_supply, proposals,    *)
(* next_proposal_id, voting_period, min_votes_required) is the state,      *)
(* together with the block number of the execution environment (now) and   *)
(* the return value of the most recent call (last).  Every #[ink(message)] *)
(* is one action; a call runs to completion before the next one starts.    *)
(*                                                                         *)
(* Account identities (H160) are opaque values compared for equality only; *)
(* they are the numbers 1..NumAccounts.  Option labels, proposal names and *)
(* descriptions are opaque strings that no operation ever inspects: an     *)
(* options vector is modelled by its labels 1..n, and the name and the     *)
(* description, which are only copied into the record, are left out.       *)
(* Option<Balance> is a sequence of length at most one.  Rust vectors are  *)
(* indexed from 0, TLA+ sequences from 1: votes[option as usize] is        *)
(* votes[option + 1] here.                                                 *)
(***************************************************************************)
EXTENDS Naturals, Sequences, FiniteSets, TLC

\* ------------------------------------------------------------------ bounds
NumAccounts == 2
MaxMembers == 2
MaxInitSupply == 3
MaxSupply == 3
MaxAmount == 1
MaxPeriod == 1
MaxMinVotes == 2
MaxOptions == 2
MaxProposals == 1
MaxStoreProposals == 2
MaxBlock == 2

\* ------------------------------------------------------- program constants
FirstProposalId == 1

Accounts == 1..NumAccounts

None == << >>
Some(v) == << v >>

MultipleChoice == "MultipleChoice"
MoneyRequest == "MoneyRequest"
ProposalType == {MultipleChoice, MoneyRequest}

Active == "Active"
Passed == "Passed"
Rejected == "Rejected"
Expired == "Expired"
ProposalStatus == {Active, Passed, Rejected, Expired}

VARIABLES members, member_tokens, total_supply, proposals, next_proposal_id,
          voting_period, min_votes_required, now, last

vars == << members, member_tokens, total_supply, proposals, next_proposal_id,
           voting_period, min_votes_required, now, last >>

config == << members, voting_period, min_votes_required >>
ledger == << member_tokens, total_supply >>
store == << proposals, next_proposal_id >>

\* ----------------------------------------------------------------- helpers
Range(s) == { s[i] : i \in 1..Len(s) }

\* Vec::contains
Contains(s, x) == \E i \in 1..Len(s) : s[i] = x

RECURSIVE SumFrom(_, _)
SumFrom(s, i) == IF i > Len(s) THEN 0 ELSE s[i] + SumFrom(s, i + 1)

\* votes.iter().sum()
Sum(s) == SumFrom(s, 1)

RECURSIVE MaxFrom(_, _, _)
MaxFrom(s, i, best) ==
    IF i > Len(s) THEN best
    ELSE MaxFrom(s, i + 1, IF s[i] > best THEN s[i] ELSE best)

\* votes.iter().max().unwrap_or(&0)
MaxOrZero(s) == MaxFrom(s, 1, 0)

\* vec![0; n]
Zeros(n) == [ i \in 1..n |-> 0 ]

\* Mapping::get(..).unwrap_or(0)
BalanceOrZero(tokens, account) ==
    IF account \in DOMAIN tokens THEN tokens[account] ELSE 0

\* Mapping::insert
Insert(map, key, value) ==
    [ k \in (DOMAIN map) \cup {key} |-> IF k = key THEN value ELSE map[k] ]

\* The value a call returns: op is the message, res is "Ok" or the Error
\* variant, val wraps the payload of an Ok (empty for the unit type).
Return(op, res, val) == [ op |-> op, res |-> res, val |-> val ]

Ok(op, val) == Return(op, "Ok", val)
Err(op, e) == Return(op, e, << >>)

\* ------------------------------------------------------------- constructor
\* Member lists up to a renaming of the identities: the first member is
\* account 1 and each later member is an earlier one or the next unused
\* account.  Duplicates are allowed, as in the constructor.
MemberLists ==
    { s \in UNION { [1..n -> Accounts] : n \in 1..MaxMembers } :
        /\ s[1] = 1
        /\ \A i \in 2..Len(s) :
              \/ \E j \in 1..(i - 1) : s[j] = s[i]
              \/ /\ s[i] > 1
                 /\ \E j \in 1..(i - 1) : s[j] = s[i] - 1
                 /\ \A j \in 1..(i - 1) : s[j] < s[i] }

tokens_per_member_whole(supply, list) == supply

tokens_per_member(supply, list) == supply \div Len(list)

RECURSIVE InitialTokens(_, _, _, _)
InitialTokens(list, i, share, tokens) ==
    IF i > Len(list) THEN tokens
    ELSE InitialTokens(list, i + 1, share, Insert(tokens, list[i], share))

EmptyMap == [ k \in {} |-> 0 ]

New(list, supply, period, min_votes) ==
    /\ Len(list) > 0
    /\ period > 0
    /\ members = list
    /\ total_supply = supply
    /\ member_tokens =
          InitialTokens(list, 1, tokens_per_member(supply, list), EmptyMap)
    /\ proposals = EmptyMap
    /\ next_proposal_id = FirstProposalId
    /\ voting_period = period
    /\ min_votes_required = min_votes
    /\ last = Ok("new", << >>)

Init ==
    /\ now = 0
    /\ \E list \in MemberLists, supply \in 0..MaxInitSupply,
          period \in 1..MaxPeriod, min_votes \in 0..MaxMinVotes :
          New(list, supply, period, min_votes)

\* ------------------------------------------------------------------ ledger
is_member_any(account) == TRUE

is_member(account) == Contains(members, account)

CreditOverwrite(tokens, recipient, amount) ==
    Insert(tokens, recipient, amount)

Credit(tokens, recipient, amount) ==
    Insert(tokens, recipient, BalanceOrZero(tokens, recipient) + amount)

DistributeTokensKeepSupply(recipient, amount) ==
    /\ total_supply + amount <= MaxSupply
    /\ IF ~is_member(recipient)
       THEN /\ last' = Err("distribute_tokens", "NotMember")
            /\ UNCHANGED ledger
       ELSE /\ member_tokens' = Credit(member_tokens, recipient, amount)
            /\ UNCHANGED total_supply
            /\ last' = Ok("distribute_tokens", << >>)
    /\ UNCHANGED << config, store, now >>

\* Balance is u128: a sum past MaxSupply is out of the model's range.
DistributeTokens(recipient, amount) ==
    /\ total_supply + amount <= MaxSupply
    /\ IF ~is_member(recipient)
       THEN /\ last' = Err("distribute_tokens", "NotMember")
            /\ UNCHANGED ledger
       ELSE /\ member_tokens' = Credit(member_tokens, recipient, amount)
            /\ total_supply' = total_supply + amount
            /\ last' = Ok("distribute_tokens", << >>)
    /\ UNCHANGED << config, store, now >>

\* ---------------------------------------------------------- proposal store
OptionLists == { [ i \in 1..n |-> i ] : n \in 0..MaxOptions }
AmountInputs == {None} \cup { Some(a) : a \in 1..MaxAmount }

ValidProposalLoose(proposal_type, options, amount) ==
    IF proposal_type = MultipleChoice
    THEN ~(options = << >>)
    ELSE ~(amount = None /\ Len(options) # 1)

ValidProposal(proposal_type, options, amount) ==
    IF proposal_type = MultipleChoice
    THEN ~(options = << >>)
    ELSE ~(amount = None \/ Len(options) # 1)

NewProposalFirstId(caller, proposal_type, options, amount) ==
    [ id |-> FirstProposalId,
      author |-> caller,
      proposal_type |-> proposal_type,
      options |-> options,
      amount |-> amount,
      votes |-> Zeros(Len(options)),
      voted_members |-> << >>,
      status |-> Active,
      created_at |-> now,
      voting_deadline |-> now + voting_period ]

NewProposal(caller, proposal_type, options, amount) ==
    [ id |-> next_proposal_id,
      author |-> caller,
      proposal_type |-> proposal_type,
      options |-> options,
      amount |-> amount,
      votes |-> Zeros(Len(options)),
      voted_members |-> << >>,
      status |-> Active,
      created_at |-> now,
      voting_deadline |-> now + voting_period ]

CreateProposalCountFirst(caller, proposal_type, options, amount) ==
    /\ next_proposal_id' = next_proposal_id + 1
    /\ IF ~ValidProposal(proposal_type, options, amount)
       THEN /\ last' = Err("create_proposal", "InvalidProposalType")
            /\ UNCHANGED proposals
       ELSE /\ proposals' =
                  Insert(proposals, next_proposal_id,
                         NewProposal(caller, proposal_type, options, amount))
            /\ last' = Ok("create_proposal", << next_proposal_id >>)
    /\ UNCHANGED << config, ledger, now >>

CreateProposal(caller, proposal_type, options, amount) ==
    /\ IF ~ValidProposal(proposal_type, options, amount)
       THEN /\ last' = Err("create_proposal", "InvalidProposalType")
            /\ UNCHANGED store
       ELSE /\ proposals' =
                  Insert(proposals, next_proposal_id,
                         NewProposal(caller, proposal_type, options, amount))
            /\ next_proposal_id' = next_proposal_id + 1
            /\ last' = Ok("create_proposal", << next_proposal_id >>)
    /\ UNCHANGED << config, ledger, now >>

\* ----------------------------------------------------------- voting engine
update_proposal_status_late_quorum(proposal) ==
    LET total_votes == Sum(proposal.votes) IN
    IF total_votes > min_votes_required
    THEN IF proposal.proposal_type = MultipleChoice
         THEN LET max_votes == MaxOrZero(proposal.votes) IN
              IF max_votes > total_votes \div 2
              THEN [ proposal EXCEPT !.status = Passed ]
              ELSE proposal
         ELSE IF proposal.votes[1] > total_votes \div 2
              THEN [ proposal EXCEPT !.status = Passed ]
              ELSE [ proposal EXCEPT !.status = Rejected ]
    ELSE proposal

update_proposal_status_half(proposal) ==
    LET total_votes == Sum(proposal.votes) IN
    IF total_votes >= min_votes_required
    THEN IF proposal.proposal_type = MultipleChoice
         THEN LET max_votes == MaxOrZero(proposal.votes) IN
              IF max_votes >= total_votes \div 2
              THEN [ proposal EXCEPT !.status = Passed ]
              ELSE proposal
         ELSE IF proposal.votes[1] > total_votes \div 2
              THEN [ proposal EXCEPT !.status = Passed ]
              ELSE [ proposal EXCEPT !.status = Rejected ]
    ELSE proposal

update_proposal_status_no_quorum(proposal) ==
    LET total_votes == Sum(proposal.votes) IN
    IF proposal.proposal_type = MultipleChoice
    THEN LET max_votes == MaxOrZero(proposal.votes) IN
         IF max_votes > total_votes \div 2
         THEN [ proposal EXCEPT !.status = Passed ]
         ELSE proposal
    ELSE IF proposal.votes[1] > total_votes \div 2
         THEN [ proposal EXCEPT !.status = Passed ]
         ELSE [ proposal EXCEPT !.status = Rejected ]

update_proposal_status(proposal) ==
    LET total_votes == Sum(proposal.votes) IN
    IF total_votes >= min_votes_required
    THEN IF proposal.proposal_type = MultipleChoice
         THEN LET max_votes == MaxOrZero(proposal.votes) IN
              IF max_votes > total_votes \div 2
              THEN [ proposal EXCEPT !.status = Passed ]
              ELSE proposal
         ELSE IF proposal.votes[1] > total_votes \div 2
              THEN [ proposal EXCEPT !.status = Passed ]
              ELSE [ proposal EXCEPT !.status = Rejected ]
    ELSE proposal

StillActiveAlways(proposal) == TRUE

StillActiveOrPassed(proposal) == proposal.status \in {Active, Passed}

StillActive(proposal) == proposal.status = Active

HasVotedNever(proposal, caller) == FALSE

HasVoted(proposal, caller) == Contains(proposal.voted_members, caller)

DeadlinePassedLate(proposal) == now > proposal.voting_deadline + 1

DeadlinePassedAtDeadline(proposal) == now >= proposal.voting_deadline

DeadlinePassed(proposal) == now > proposal.voting_deadline

OptionPastEnd(proposal, option) == option > Len(proposal.options)

OptionOutOfRange(proposal, option) == option >= Len(proposal.options)

CastVoteUnrecorded(proposal, caller, option) ==
    [ proposal EXCEPT !.votes[option + 1] = @ + 1 ]

CastVote(proposal, caller, option) ==
    [ proposal EXCEPT !.votes[option + 1] = @ + 1,
                      !.voted_members = Append(@, caller) ]

VoteExpiryFirst(caller, proposal_id, option) ==
    /\ IF ~is_member(caller)
       THEN /\ last' = Err("vote", "NotMember")
            /\ UNCHANGED proposals
       ELSE IF proposal_id \notin DOMAIN proposals
       THEN /\ last' = Err("vote", "ProposalNotFound")
            /\ UNCHANGED proposals
       ELSE LET proposal == proposals[proposal_id] IN
            IF ~StillActive(proposal)
            THEN /\ last' = Err("vote", "ProposalExpired")
                 /\ UNCHANGED proposals
            ELSE IF DeadlinePassed(proposal)
            THEN /\ proposals' =
                       Insert(proposals, proposal_id,
                              [ proposal EXCEPT !.status = Expired ])
                 /\ last' = Err("vote", "ProposalExpired")
            ELSE IF HasVoted(proposal, caller)
            THEN /\ last' = Err("vote", "AlreadyVoted")
                 /\ UNCHANGED proposals
            ELSE IF OptionOutOfRange(proposal, option)
            THEN /\ last' = Err("vote", "InvalidOption")
                 /\ UNCHANGED proposals
            ELSE /\ proposals' =
                       Insert(proposals, proposal_id,
                              update_proposal_status(
                                  CastVote(proposal, caller, option)))
                 /\ last' = Ok("vote", << >>)
    /\ UNCHANGED << config, ledger, next_proposal_id, now >>

Vote(caller, proposal_id, option) ==
    /\ IF ~is_member(caller)
       THEN /\ last' = Err("vote", "NotMember")
            /\ UNCHANGED proposals
       ELSE IF proposal_id \notin DOMAIN proposals
       THEN /\ last' = Err("vote", "ProposalNotFound")
            /\ UNCHANGED proposals
       ELSE LET proposal == proposals[proposal_id] IN
            IF HasVoted(proposal, caller)
            THEN /\ last' = Err("vote", "AlreadyVoted")
                 /\ UNCHANGED proposals
            ELSE IF ~StillActive(proposal)
            THEN /\ last' = Err("vote", "ProposalExpired")
                 /\ UNCHANGED proposals
            ELSE IF DeadlinePassed(proposal)
            THEN /\ proposals' =
                       Insert(proposals, proposal_id,
                              [ proposal EXCEPT !.status = Expired ])
                 /\ last' = Err("vote", "ProposalExpired")
            ELSE IF OptionOutOfRange(proposal, option)
            THEN /\ last' = Err("vote", "InvalidOption")
                 /\ UNCHANGED proposals
            ELSE /\ proposals' =
                       Insert(proposals, proposal_id,
                              update_proposal_status(
                                  CastVote(proposal, caller, option)))
                 /\ last' = Ok("vote", << >>)
    /\ UNCHANGED << config, ledger, next_proposal_id, now >>

\* ------------------------------------------------------------------- reads
ProposalViewPastDeadline(proposal) ==
    IF now > proposal.voting_deadline
    THEN [ proposal EXCEPT !.status = Expired ]
    ELSE proposal

ProposalView(proposal) ==
    IF proposal.status = Active /\ now > proposal.voting_deadline
    THEN [ proposal EXCEPT !.status = Expired ]
    ELSE proposal

GetProposal(proposal_id) ==
    /\ IF proposal_id \notin DOMAIN proposals
       THEN last' = Err("get_proposal", "ProposalNotFound")
       ELSE last' = Ok("get_proposal", << ProposalView(proposals[proposal_id]) >>)
    /\ UNCHANGED << config, ledger, store, now >>

ListedBeforeDeadline(proposal) ==
    proposal.status = Active /\ now < proposal.voting_deadline

ListedAsActive(proposal) ==
    proposal.status = Active /\ now <= proposal.voting_deadline

RECURSIVE ActiveFrom(_, _)
ActiveFrom(id, active) ==
    IF id >= next_proposal_id THEN active
    ELSE ActiveFrom(id + 1,
            IF id \in DOMAIN proposals /\ ListedAsActive(proposals[id])
            THEN Append(active, id)
            ELSE active)

active_proposals == ActiveFrom(1, << >>)

GetActiveProposals ==
    /\ last' = Ok("get_active_proposals", << active_proposals >>)
    /\ UNCHANGED << config, ledger, store, now >>

GetMemberBalance(member) ==
    /\ last' = Ok("get_member_balance", << BalanceOrZero(member_tokens, member) >>)
    /\ UNCHANGED << config, ledger, store, now >>

GetMembers ==
    /\ last' = Ok("get_members", << members >>)
    /\ UNCHANGED << config, ledger, store, now >>

GetTotalSupply ==
    /\ last' = Ok("get_total_supply", << total_supply >>)
    /\ UNCHANGED << config, ledger, store, now >>

IsMember(account) ==
    /\ last' = Ok("is_member", << is_member(account) >>)
    /\ UNCHANGED << config, ledger, store, now >>

AddBlocks ==
    /\ last' = Ok("add_blocks", << now >>)
    /\ UNCHANGED << config, ledger, store, now >>

\* ------------------------------------------------------------- environment
\* The chain produces the next block; the contract only reads the number.
AdvanceBlock ==
    /\ now < MaxBlock
    /\ now' = now + 1
    /\ last' = Ok("block", << >>)
    /\ UNCHANGED << config, ledger, store >>

\* ------------------------------------------------------------ specification
\* Every message of the contract, with at most MaxProposals proposals.
Next ==
    \/ \E recipient \in Accounts, amount \in 0..MaxAmount :
          DistributeTokens(recipient, amount)
    \/ \E caller \in Accounts, proposal_type \in ProposalType,
          options \in OptionLists, amount \in AmountInputs :
          /\ next_proposal_id <= MaxProposals
          /\ CreateProposal(caller, proposal_type, options, amount)
    \/ \E caller \in Accounts, proposal_id \in 0..MaxProposals,
          option \in 0..MaxOptions :
          Vote(caller, proposal_id, option)
    \/ \E proposal_id \in 0..MaxProposals : GetProposal(proposal_id)
    \/ GetActiveProposals
    \/ \E member \in Accounts : GetMemberBalance(member)
    \/ GetMembers
    \/ GetTotalSupply
    \/ \E account \in Accounts : IsMember(account)
    \/ AddBlocks
    \/ AdvanceBlock

Spec == Init /\ [][Next]_vars

\* The proposal store and the voting engine with up to MaxStoreProposals
\* proposals: create_proposal, vote, get_active_proposals and the clock.
\* The ledger, which none of these messages reads or writes, stays as
\* constructed with no supply; proposals are created by the first member,
\* and a requested amount is passed exactly with a money request (Spec
\* covers the other callers and combinations).
StoreAmount(proposal_type) ==
    IF proposal_type = MoneyRequest THEN Some(MaxAmount) ELSE None

NextStore ==
    \/ \E caller \in {members[1]}, proposal_type \in ProposalType,
          options \in OptionLists :
          /\ next_proposal_id <= MaxStoreProposals
          /\ CreateProposal(caller, proposal_type, options,
                            StoreAmount(proposal_type))
    \/ \E caller \in Accounts, proposal_id \in 0..MaxStoreProposals,
          option \in 0..MaxOptions :
          Vote(caller, proposal_id, option)
    \/ GetActiveProposals
    \/ AdvanceBlock

InitStore ==
    /\ now = 0
    /\ \E list \in MemberLists, period \in 1..MaxPeriod,
          min_votes \in 0..MaxMinVotes :
          New(list, 0, period, min_votes)

SpecStore == InitStore /\ [][NextStore]_vars

\* ================================================================== claims
StoreIds == 0..MaxStoreProposals
OptionInputs == 0..MaxOptions

Voters(proposal) == Range(proposal.voted_members)

NoDuplicates(s) == \A i, j \in 1..Len(s) : s[i] = s[j] => i = j

RECURSIVE SumOver(_, _)
SumOver(f, keys) ==
    IF keys = {} THEN 0
    ELSE LET k == CHOOSE x \in keys : TRUE IN f[k] + SumOver(f, keys \ {k})

\* The sum of all ledger entries.
SumBalances == SumOver(member_tokens, DOMAIN member_tokens)

\* C1: a member whose vote on a proposal was accepted is recorded in that
\* proposal's voted_members and stays there; every later vote call of that
\* member on that proposal returns AlreadyVoted, whatever the option, the
\* clock and the status, and changes nothing; no identity is recorded twice.
C1_VoteOnce ==
    [][ /\ \A c \in Accounts, id \in StoreIds, o \in OptionInputs :
              /\ (last'.op = "vote" /\ last'.res = "Ok" /\ Vote(c, id, o))
                    => /\ id \in DOMAIN proposals'
                       /\ c \in Voters(proposals'[id])
              /\ ( /\ last'.op = "vote"
                   /\ id \in DOMAIN proposals
                   /\ c \in Voters(proposals[id])
                   /\ Vote(c, id, o) )
                    => /\ last'.res = "AlreadyVoted"
                       /\ UNCHANGED << config, ledger, store, now >>
        /\ \A id \in DOMAIN proposals :
              /\ id \in DOMAIN proposals'
              /\ Voters(proposals[id]) \subseteq Voters(proposals'[id])
        /\ \A id \in DOMAIN proposals' :
              NoDuplicates(proposals'[id].voted_members) ]_vars

\* A second vote was refused on a proposal that is still Active in storage
\* although its deadline has passed.
C1_Witness ==
    /\ last.op = "vote"
    /\ last.res = "AlreadyVoted"
    /\ \E id \in DOMAIN proposals :
          /\ Len(proposals[id].voted_members) = 1
          /\ proposals[id].status = Active
          /\ now > proposals[id].voting_deadline

\* C2: a vote call by a caller outside the members list returns NotMember,
\* whether or not the proposal exists, the deadline has passed or the option
\* is in range, and leaves every proposal as it was.
C2_NonMemberVote ==
    [][ \A c \in Accounts, id \in StoreIds, o \in OptionInputs :
          (last'.op = "vote" /\ c \notin Range(members) /\ Vote(c, id, o))
             => /\ last'.res = "NotMember"
                /\ proposals' = proposals ]_vars

\* A non-member was refused while a proposal past its deadline is stored.
C2_Witness ==
    /\ last.op = "vote"
    /\ last.res = "NotMember"
    /\ \E id \in DOMAIN proposals : now > proposals[id].voting_deadline

\* C3 as stated: every vote call on an existing proposal after its deadline
\* returns ProposalExpired and leaves the stored status Expired.
C3_AsStated ==
    [][ \A c \in Accounts, id \in StoreIds, o \in OptionInputs :
          ( /\ last'.op = "vote"
            /\ id \in DOMAIN proposals
            /\ now > proposals[id].voting_deadline
            /\ Vote(c, id, o) )
             => /\ last'.res = "ProposalExpired"
                /\ proposals'[id].status = Expired ]_vars

\* C3, amended: a vote call after the deadline by a member who has not voted
\* on that proposal returns ProposalExpired; when the stored status was
\* Active it is Expired afterwards (also on the first such call), otherwise
\* the stored status is kept.  Nothing else of the proposal changes.
C3_LazyExpiry ==
    [][ \A c \in Accounts, id \in StoreIds, o \in OptionInputs :
          ( /\ last'.op = "vote"
            /\ id \in DOMAIN proposals
            /\ now > proposals[id].voting_deadline
            /\ c \in Range(members)
            /\ c \notin Voters(proposals[id])
            /\ Vote(c, id, o) )
             => /\ last'.res = "ProposalExpired"
                /\ proposals' =
                     [ proposals EXCEPT ![id].status =
                         IF @ = Active THEN Expired ELSE @ ] ]_vars

\* The first vote after the deadline was refused and the proposal, which no
\* one had voted on, is now stored as Expired.
C3_Witness ==
    /\ last.op = "vote"
    /\ last.res = "ProposalExpired"
    /\ \E id \in DOMAIN proposals :
          /\ proposals[id].status = Expired
          /\ proposals[id].voted_members = << >>
          /\ now > proposals[id].voting_deadline

\* C4 as stated: every vote call on an existing proposal with an option
\* index >= the number of options returns InvalidOption and leaves the
\* votes vector unchanged.
C4_AsStated ==
    [][ \A c \in Accounts, id \in StoreIds, o \in OptionInputs :
          ( /\ last'.op = "vote"
            /\ id \in DOMAIN proposals
            /\ o >= Len(proposals[id].options)
            /\ Vote(c, id, o) )
             => /\ last'.res = "InvalidOption"
                /\ proposals'[id].votes = proposals[id].votes ]_vars

\* C4, amended: such a call always fails and leaves votes and voted_members
\* of every proposal unchanged; the error is InvalidOption exactly when the
\* caller is a member who has not voted, the stored status is Active and the
\* deadline has not passed, and otherwise NotMember, AlreadyVoted or
\* ProposalExpired.
C4_InvalidOption ==
    [][ \A c \in Accounts, id \in StoreIds, o \in OptionInputs :
          ( /\ last'.op = "vote"
            /\ id \in DOMAIN proposals
            /\ o >= Len(proposals[id].options)
            /\ Vote(c, id, o) )
             => /\ last'.res \in { "InvalidOption", "NotMember",
                                   "AlreadyVoted", "ProposalExpired" }
                /\ (last'.res = "InvalidOption") <=>
                      ( /\ c \in Range(members)
                        /\ c \notin Voters(proposals[id])
                        /\ proposals[id].status = Active
                        /\ now <= proposals[id].voting_deadline )
                /\ \A p \in DOMAIN proposals :
                      /\ proposals'[p].votes = proposals[p].votes
                      /\ proposals'[p].voted_members =
                            proposals[p].voted_members ]_vars

\* An out-of-range option was refused on a proposal that already has a vote.
C4_Witness ==
    /\ last.op = "vote"
    /\ last.res = "InvalidOption"
    /\ \E id \in DOMAIN proposals :
          /\ proposals[id].status = Active
          /\ Len(proposals[id].voted_members) = 1

\* C5: a stored proposal is never removed, and a stored status other than
\* Active never changes again: every status change starts from Active.
C5_TerminalStatus ==
    [][ \A id \in DOMAIN proposals :
          /\ id \in DOMAIN proposals'
          /\ proposals[id].status # Active
                => proposals'[id].status = proposals[id].status ]_vars

\* A vote was refused on a proposal that passed before its deadline ran out,
\* by a member who had not voted on it.
C5_Witness ==
    /\ last.op = "vote"
    /\ last.res = "ProposalExpired"
    /\ \E id \in DOMAIN proposals :
          /\ proposals[id].status = Passed
          /\ now > proposals[id].voting_deadline
          /\ \E m \in Range(members) : m \notin Voters(proposals[id])

\* C6 as stated: the balances of all members sum to total_supply.
C6_AsStated == SumBalances = total_supply

\* C6, amended: the balances sum to at most total_supply, and the part of
\* total_supply that no balance holds (the remainder the constructor left
\* unassigned) is the same after every call.
C6_SupplyCoversBalances ==
    [][ /\ SumBalances <= total_supply
        /\ SumBalances' <= total_supply'
        /\ total_supply' + SumBalances = total_supply + SumBalances' ]_vars

\* Tokens were distributed to a DAO whose constructor left a remainder.
C6_Witness ==
    /\ last.op = "distribute_tokens"
    /\ last.res = "Ok"
    /\ SumBalances > 0
    /\ SumBalances < total_supply

\* C7: the constructor called with a non-empty list and a supply records the
\* supply as total_supply and gives every member floor(supply / length of the
\* list); the balances sum to at most the supply.
C7_Construction ==
    \A list \in MemberLists, supply \in 0..MaxInitSupply,
       period \in 1..MaxPeriod, min_votes \in 0..MaxMinVotes :
       New(list, supply, period, min_votes)
          => /\ total_supply = supply
             /\ DOMAIN member_tokens = Range(list)
             /\ \A m \in Range(list) :
                   /\ member_tokens[m] * Len(list) <= supply
                   /\ supply < (member_tokens[m] + 1) * Len(list)
             /\ SumBalances <= supply

\* Two distinct members were constructed with an odd supply above one.
C7_Witness ==
    /\ last.op = "new"
    /\ Cardinality(Range(members)) = 2
    /\ total_supply = 3
    /\ SumBalances = 2

\* C8: create_proposal for a money request without exactly one option or
\* without an amount, or for a multiple choice without options, returns
\* InvalidProposalType and leaves the store and the id counter unchanged; a
\* successful creation returns the id the counter held.
C8_InvalidCreation ==
    [][ \A c \in Accounts, ty \in ProposalType, opts \in OptionLists,
           am \in AmountInputs :
          (last'.op = "create_proposal" /\ CreateProposal(c, ty, opts, am))
             => IF \/ ty = MoneyRequest /\ (Len(opts) # 1 \/ am = None)
                   \/ ty = MultipleChoice /\ Len(opts) = 0
                THEN /\ last'.res = "InvalidProposalType"
                     /\ proposals' = proposals
                     /\ next_proposal_id' = next_proposal_id
                ELSE /\ last'.res = "Ok"
                     /\ last'.val = << next_proposal_id >>
                     /\ next_proposal_id' = next_proposal_id + 1 ]_vars

\* A creation was refused and nothing is stored.
C8_Witness ==
    /\ last.op = "create_proposal"
    /\ last.res = "InvalidProposalType"
    /\ next_proposal_id = FirstProposalId
    /\ DOMAIN proposals = {}

\* C9: get_active_proposals returns, in ascending order and without
\* duplicates, exactly the ids of the stored proposals whose stored status is
\* Active and whose deadline is >= the clock.
C9_ActiveListing ==
    LET listed == active_proposals IN
    /\ \A i, j \in 1..Len(listed) : i < j => listed[i] < listed[j]
    /\ Range(listed) =
          { id \in DOMAIN proposals :
               /\ proposals[id].status = Active
               /\ proposals[id].voting_deadline >= now }
    /\ last.op = "get_active_proposals" => last.val = << listed >>

\* The listing returned the second proposal only: the first one is still
\* Active in storage but its deadline has passed.
C9_Witness ==
    /\ last.op = "get_active_proposals"
    /\ last.val = << << 2 >> >>
    /\ proposals[1].status = Active
    /\ now > proposals[1].voting_deadline

\* C10: the author of every stored proposal is in the members list.
C10_AuthorIsMember ==
    \A id \in DOMAIN proposals : proposals[id].author \in Range(members)


\* C11: a call that returns an error leaves members, balances, total_supply,
\* next_proposal_id and every stored proposal unchanged, except a vote that
\* fails ProposalExpired past the deadline of a proposal stored as Active:
\* that call changes exactly that proposal's status to Expired.  A failing
\* vote on a proposal already stored as Expired changes nothing.
C11_FailureFrame ==
    [][ /\ last'.res # "Ok" =>
              /\ UNCHANGED << config, ledger, next_proposal_id, now >>
              /\ \/ proposals' = proposals
                 \/ /\ last'.op = "vote"
                    /\ last'.res = "ProposalExpired"
                    /\ \E id \in DOMAIN proposals :
                          /\ proposals[id].status = Active
                          /\ now > proposals[id].voting_deadline
                          /\ proposals' =
                                [ proposals EXCEPT ![id].status = Expired ]
        /\ \A c \in Accounts, id \in StoreIds, o \in OptionInputs :
              ( /\ last'.op = "vote"
                /\ id \in DOMAIN proposals
                /\ proposals[id].status = Expired
                /\ Vote(c, id, o) )
                 => /\ last'.res # "Ok"
                    /\ UNCHANGED << config, ledger, store, now >> ]_vars

\* A member's vote was refused after the deadline and stored the proposal,
\* on which another member had voted in time, as Expired; the ledger holds
\* tokens.
C11_Witness ==
    /\ last.op = "vote"
    /\ last.res = "ProposalExpired"
    /\ total_supply > 0
    /\ \E id \in DOMAIN proposals :
          /\ proposals[id].status = Expired
          /\ Len(proposals[id].voted_members) = 1

\* The stored proposals an accepted vote has changed (exactly one).
VotedOn == { id \in DOMAIN proposals : proposals'[id] # proposals[id] }

AcceptedVote == last'.op = "vote" /\ last'.res = "Ok"

\* C12: with min_votes_required = m >= 1, an accepted vote on a money request
\* that leaves the total number of votes below m leaves the stored status
\* Active, and the accepted vote that brings the total to m stores Passed.
C12_MoneyRequestQuorum ==
    [][ (AcceptedVote /\ min_votes_required >= 1) =>
          /\ VotedOn # {}
          /\ \A id \in VotedOn :
                proposals[id].proposal_type = MoneyRequest =>
                   LET total == Sum(proposals'[id].votes) IN
                   /\ total = Sum(proposals[id].votes) + 1
                   /\ total < min_votes_required
                         => proposals'[id].status = Active
                   /\ total = min_votes_required
                         => proposals'[id].status = Passed ]_vars

\* The second of two required votes was accepted and the money request is
\* stored as Passed.
C12_Witness ==
    /\ last.op = "vote"
    /\ last.res = "Ok"
    /\ min_votes_required = 2
    /\ \E id \in DOMAIN proposals :
          /\ proposals[id].proposal_type = MoneyRequest
          /\ proposals[id].votes = << 2 >>
          /\ proposals[id].status = Passed
          /\ DOMAIN proposals = {id}

\* C13: after an accepted vote on a multiple-choice proposal, with total the
\* sum of the votes and max the largest count, the stored status is Passed
\* if total >= min_votes_required and max > total / 2 (integer division),
\* and Active otherwise: a tie does not pass.
C13_MultipleChoiceMajority ==
    [][ AcceptedVote =>
          \A id \in VotedOn :
             proposals[id].proposal_type = MultipleChoice =>
                LET votes == proposals'[id].votes
                    total == Sum(votes)
                    majority == \E i \in 1..Len(votes) :
                                   /\ \A j \in 1..Len(votes) : votes[j] <= votes[i]
                                   /\ votes[i] > total \div 2
                IN  /\ proposals'[id].status \in {Active, Passed}
                    /\ (proposals'[id].status = Passed) <=>
                          (total >= min_votes_required /\ majority) ]_vars

\* Two members voted for different options with two votes required: the
\* proposal is still Active.
C13_Witness ==
    /\ last.op = "vote"
    /\ last.res = "Ok"
    /\ min_votes_required = 2
    /\ \E id \in DOMAIN proposals :
          /\ proposals[id].proposal_type = MultipleChoice
          /\ proposals[id].votes = << 1, 1 >>
          /\ proposals[id].status = Active

FirstFailingCheck(caller, proposal_id, option) ==
    IF \A i \in 1..Len(members) : members[i] # caller THEN 1
    ELSE IF proposal_id \notin DOMAIN proposals THEN 2
    ELSE IF caller \in Voters(proposals[proposal_id]) THEN 3
    ELSE IF proposals[proposal_id].status # Active THEN 4
    ELSE IF now > proposals[proposal_id].voting_deadline THEN 5
    ELSE IF option >= Len(proposals[proposal_id].options) THEN 6
    ELSE 0

CheckResult(check) ==
    CASE check = 0 -> "Ok"
      [] check = 1 -> "NotMember"
      [] check = 2 -> "ProposalNotFound"
      [] check = 3 -> "AlreadyVoted"
      [] check = 4 -> "ProposalExpired"
      [] check = 5 -> "ProposalExpired"
      [] check = 6 -> "InvalidOption"

\* C15: the result of vote is decided by the first failing check in the
\* order member, proposal exists, not already voted, status Active, deadline
\* not passed (failing it stores Expired), option in range; the vote is
\* accepted only when all six pass.  A member who already voted and votes
\* again after the deadline gets AlreadyVoted and the stored status stays.
C15_CheckOrder ==
    [][ \A caller \in Accounts, proposal_id \in StoreIds, option \in OptionInputs :
          ( /\ last'.op = "vote"
            /\ Vote(caller, proposal_id, option) ) =>
             LET check == FirstFailingCheck(caller, proposal_id, option) IN
             /\ last'.res = CheckResult(check)
             /\ check \in {1, 2, 3, 4, 6} => proposals' = proposals
             /\ check = 5 =>
                   proposals' = [ proposals EXCEPT ![proposal_id].status = Expired ]
             /\ check = 0 => proposals'[proposal_id] # proposals[proposal_id] ]_vars

\* A member who had voted called vote again past the deadline of a proposal
\* that is still stored as Active, next to a second proposal.
C15_Witness ==
    /\ last.op = "vote"
    /\ last.res = "AlreadyVoted"
    /\ Cardinality(DOMAIN proposals) = 2
    /\ \E id \in DOMAIN proposals :
          /\ proposals[id].status = Active
          /\ now > proposals[id].voting_deadline
          /\ Len(proposals[id].voted_members) = 1
          /\ \A other \in DOMAIN proposals \ {id} :
                Len(proposals[other].voted_members) = 0

\* C16: proposal ids are allocated 1, 2, 3, ... in creation order: the k-th
\* successful create_proposal returns k, a stored proposal's id field is the
\* key it is stored under, the stored proposals are exactly those with ids
\* 1 .. next_proposal_id - 1, and no id is reused or deleted.
C16_IdAllocation ==
    [][ /\ DOMAIN proposals = 1..(next_proposal_id - 1)
        /\ DOMAIN proposals' = 1..(next_proposal_id' - 1)
        /\ \A id \in DOMAIN proposals' : proposals'[id].id = id
        /\ DOMAIN proposals \subseteq DOMAIN proposals'
        /\ ( /\ last'.op = "create_proposal"
             /\ last'.res = "Ok" ) =>
              LET k == Cardinality(DOMAIN proposals) + 1 IN
              /\ last'.val = << k >>
              /\ DOMAIN proposals' = DOMAIN proposals \cup {k}
              /\ \A id \in DOMAIN proposals : proposals'[id] = proposals[id] ]_vars

\* The second successful create_proposal returned 2 and both proposals are
\* stored, the first one with a vote on it.
C16_Witness ==
    /\ last.op = "create_proposal"
    /\ last.res = "Ok"
    /\ last.val = << 2 >>
    /\ next_proposal_id = 3
    /\ DOMAIN proposals = {1, 2}
    /\ Len(proposals[1].voted_members) = 1

ReadOnlyQueries ==
    { "get_proposal", "get_active_proposals", "get_member_balance",
      "get_members", "get_total_supply", "is_member", "add_blocks" }

\* C17: get_proposal returns ProposalNotFound for an unknown id and otherwise
\* the stored record, with status Expired when the stored status is Active
\* and now > voting_deadline and with the stored status in every other case;
\* get_proposal and the other read-only queries change nothing stored.
C17_ProposalView ==
    [][ /\ last'.op \in ReadOnlyQueries =>
              UNCHANGED << config, ledger, store, now >>
        /\ \A id \in 0..MaxProposals :
              ( /\ last'.op = "get_proposal"
                /\ GetProposal(id) ) =>
                 IF id \notin DOMAIN proposals
                 THEN last'.res = "ProposalNotFound"
                 ELSE /\ last'.res = "Ok"
                      /\ Len(last'.val) = 1
                      /\ LET stored == proposals[id]
                             view == last'.val[1]
                         IN  /\ [ view EXCEPT !.status = stored.status ] = stored
                             /\ view.status =
                                   IF /\ stored.status = Active
                                      /\ now > stored.voting_deadline
                                   THEN Expired
                                   ELSE stored.status ]_vars

\* get_proposal reported Expired for a proposal with a vote on it whose
\* stored status is still Active.
C17_Witness ==
    /\ last.op = "get_proposal"
    /\ last.res = "Ok"
    /\ last.val[1].status = Expired
    /\ last.val[1].id \in DOMAIN proposals
    /\ proposals[last.val[1].id].status = Active
    /\ Len(proposals[last.val[1].id].voted_members) = 1

\* C18: for a member who has not yet voted on a proposal stored as Active,
\* with a valid option index, vote is accepted if and only if
\* now <= voting_deadline, where voting_deadline is the creation clock plus
\* voting_period; a vote at exactly now = voting_deadline is counted, and no
\* votes entry or voted_members list of a proposal changes in a call made
\* with now > voting_deadline.
C18_DeadlineBoundary ==
    [][ /\ \A id \in DOMAIN proposals :
              /\ proposals[id].voting_deadline =
                    proposals[id].created_at + voting_period
              /\ now > proposals[id].voting_deadline =>
                    /\ proposals'[id].votes = proposals[id].votes
                    /\ proposals'[id].voted_members = proposals[id].voted_members
        /\ \A c \in Accounts, id \in StoreIds, o \in OptionInputs :
              ( /\ last'.op = "vote"
                /\ id \in DOMAIN proposals
                /\ c \in Range(members)
                /\ c \notin Voters(proposals[id])
                /\ proposals[id].status = Active
                /\ o < Len(proposals[id].options)
                /\ Vote(c, id, o) ) =>
                 /\ last'.res = "Ok" <=> now <= proposals[id].voting_deadline
                 /\ last'.res = "Ok" =>
                       /\ proposals'[id].votes[o + 1] = proposals[id].votes[o + 1] + 1
                       /\ proposals'[id].voted_members =
                             Append(proposals[id].voted_members, c) ]_vars

\* A vote was accepted at exactly the deadline of the only proposal, created
\* one block earlier.
C18_Witness ==
    /\ last.op = "vote"
    /\ last.res = "Ok"
    /\ \E id \in DOMAIN proposals :
          /\ DOMAIN proposals = {id}
          /\ proposals[id].created_at < now
          /\ now = proposals[id].voting_deadline
          /\ Len(proposals[id].voted_members) = 1

\* A money request has exactly one counter, so its first counter is the total
\* of its votes and no money request is stored as Rejected.
MoneyRequestNeverRejected ==
    \A id \in DOMAIN proposals :
       proposals[id].proposal_type = MoneyRequest =>
          /\ Len(proposals[id].votes) = 1
          /\ proposals[id].votes[1] = Sum(proposals[id].votes)
          /\ proposals[id].status # Rejected

\* C19: a money request can be rejected through voting: when the next
\* accepted vote on a money request stored as Active brings the total to
\* min_votes_required, some member has a vote on it that is accepted and
\* stores Rejected (votes[0] > total / 2 does not hold after it).
C19_AsStated ==
    \A id \in DOMAIN proposals :
       LET proposal == proposals[id]
           open == Range(members) \ Voters(proposal)
       IN  ( /\ proposal.proposal_type = MoneyRequest
             /\ proposal.status = Active
             /\ now <= proposal.voting_deadline
             /\ Sum(proposal.votes) + 1 >= min_votes_required
             /\ open # {} ) =>
              \E caller \in open, option \in 0..(Len(proposal.options) - 1) :
                 update_proposal_status(
                     CastVote(proposal, caller, option)).status = Rejected

\* C20: for every stored proposal the votes vector is as long as options,
\* the sum of the votes entries is the number of entries of voted_members,
\* and every entry of voted_members is a member; hence the total number of
\* votes on a proposal never exceeds the number of distinct members.
C20_VoteAccounting ==
    \A id \in DOMAIN proposals :
       LET proposal == proposals[id] IN
       /\ Len(proposal.votes) = Len(proposal.options)
       /\ Sum(proposal.votes) = Len(proposal.voted_members)
       /\ \A i \in 1..Len(proposal.voted_members) :
             \E j \in 1..Len(members) : members[j] = proposal.voted_members[i]
       /\ Sum(proposal.votes) <= Cardinality(Range(members))

\* Every member has voted on the first of two proposals, one vote per
\* option: the total equals the number of distinct members.
C20_Witness ==
    /\ DOMAIN proposals = {1, 2}
    /\ Cardinality(Range(members)) = 2
    /\ proposals[1].votes = << 1, 1 >>
    /\ Len(proposals[1].voted_members) = 2
    /\ Len(proposals[2].voted_members) = 1

\* C21: once a proposal is stored as Passed, Rejected or Expired, its votes
\* vector and its voted_members list never change again: no vote is counted
\* on a proposal that is not Active.
C21_ClosedProposalFrozen ==
    [][ \A id \in DOMAIN proposals :
          /\ proposals[id].status \in {Passed, Rejected, Expired} =>
                /\ id \in DOMAIN proposals'
                /\ proposals'[id].votes = proposals[id].votes
                /\ proposals'[id].voted_members = proposals[id].voted_members
          /\ ( \/ proposals'[id].votes # proposals[id].votes
               \/ proposals'[id].voted_members # proposals[id].voted_members ) =>
                proposals[id].status = Active ]_vars

\* A member who has not voted was turned away, before the deadline, from a
\* proposal that passed on the other member's vote.
C21_Witness ==
    /\ last.op = "vote"
    /\ last.res = "ProposalExpired"
    /\ Cardinality(Range(members)) = 2
    /\ \E id \in DOMAIN proposals :
          /\ DOMAIN proposals = {id}
          /\ proposals[id].status = Passed
          /\ now <= proposals[id].voting_deadline
          /\ Len(proposals[id].voted_members) = 1

\* C22: every proposal stored as Passed has at least one vote, a total of
\* votes >= min_votes_required and one option whose count is a strict
\* majority of the votes cast (2 * count > total).
C22_PassedHasMajority ==
    \A id \in DOMAIN proposals :
       proposals[id].status = Passed =>
          LET votes == proposals[id].votes
              total == Sum(votes)
          IN  /\ total >= 1
              /\ total >= min_votes_required
              /\ \E i \in 1..Len(votes) : 2 * votes[i] > total

\* A multiple-choice proposal passed with both of the two required votes on
\* its second option.
C22_Witness ==
    /\ min_votes_required = 2
    /\ \E id \in DOMAIN proposals :
          /\ proposals[id].proposal_type = MultipleChoice
          /\ proposals[id].status = Passed
          /\ proposals[id].votes = << 0, 2 >>

====
